---- MODULE Spec2Model ----
(***************************************************************************)
(* Model of the Tracking package (src/Tracking): the event records, the   *)
(* process-wide session registry (events.py), the configuration record    *)
(* (config.py), the console renderer (display.py) and the two wrappers    *)
(* track_function / track_llm (decorators.py).                            *)
(*                                                                         *)
(* Conventions                                                             *)
(*  - str(uuid.uuid4()) is modelled by a fresh positive number taken from  *)
(*    the counter uuid_count; the empty string "" used for "no session"    *)
(*    is the number 0 (EmptyId).                                           *)
(*  - datetime.now() / time.perf_counter() read the variable now, which    *)
(*    only moves forward (Tick, and the time a wrapped call takes).        *)
(*  - Python's None in a string-valued field is the marker NoneStr.        *)
(*  - Python text whose words are counted is a sequence of characters.     *)
(***************************************************************************)
EXTENDS Integers, Sequences, FiniteSets, TLC

\* ---------------------------------------------------------------- bounds
MaxUuid == 6
MaxEvents == 3
MaxTime == 1
MaxTextLen == 3
MaxThreads == 2
MaxDepth == 2

\* ------------------------------------------------------- Python values
EmptyId == 0
NoneStr == "<None>"

\* Python objects passed to / returned by wrapped functions.
\* type: the Python type; int / str: the value of an int / a str whose
\* characters do not matter; chars: the characters of a text (a prompt, a
\* model name, the .text of a response), hasText: the .text is a str.
PyNone == [type |-> "NoneType", int |-> 0, str |-> "", chars |-> << >>, hasText |-> FALSE]
PyInt(n) == [type |-> "int", int |-> n, str |-> "", chars |-> << >>, hasText |-> FALSE]
PyStr(s) == [type |-> "str", int |-> 0, str |-> s, chars |-> << >>, hasText |-> FALSE]
\* an opaque handle such as the calendar `service` object
PyObj(name) == [type |-> "object", int |-> 0, str |-> name, chars |-> << >>, hasText |-> FALSE]
\* an object whose __repr__ raises
PyBadRepr == [type |-> "badrepr", int |-> 0, str |-> "", chars |-> << >>, hasText |-> FALSE]
\* True / False
PyBool(b) == [type |-> "bool", int |-> IF b THEN 1 ELSE 0, str |-> "", chars |-> << >>, hasText |-> FALSE]
\* a list of n times None
PyList(n) == [type |-> "list", int |-> n, str |-> "", chars |-> << >>, hasText |-> FALSE]
\* a str given by its characters
PyText(cs) == [type |-> "text", int |-> 0, str |-> "", chars |-> cs, hasText |-> FALSE]
\* a model handle with a model_name attribute
PyModel(cs) == [type |-> "model", int |-> 0, str |-> "", chars |-> cs, hasText |-> TRUE]
\* an LLM response with a .text attribute holding a str
PyResponse(cs) == [type |-> "response", int |-> 0, str |-> "", chars |-> cs, hasText |-> TRUE]
\* an LLM response whose .text is None
PyResponseNoText == [type |-> "response", int |-> 0, str |-> "", chars |-> << >>, hasText |-> FALSE]

\* v is not None
Truthy_is_not_none(v) == v.type # "NoneType"

\* bool(v)
Truthy(v) ==
    CASE v.type = "NoneType" -> FALSE
      [] v.type = "int" -> v.int # 0
      [] v.type = "bool" -> v.int # 0
      [] v.type = "list" -> v.int # 0
      [] v.type = "str" -> v.str # ""
      [] v.type = "text" -> v.chars # << >>
      [] OTHER -> TRUE

\* ", ".join(["None"] * n)
RECURSIVE NoneItems(_)
NoneItems(n) ==
    IF n = 0 THEN ""
    ELSE IF n = 1 THEN "None"
    ELSE "None, " \o NoneItems(n - 1)

\* repr(v); only applied to values whose __repr__ returns
Repr(v) ==
    CASE v.type = "NoneType" -> "None"
      [] v.type = "int" -> ToString(v.int)
      [] v.type = "bool" -> IF v.int # 0 THEN "True" ELSE "False"
      [] v.type = "list" -> "[" \o NoneItems(v.int) \o "]"
      [] v.type = "str" -> "'" \o v.str \o "'"
      [] OTHER -> "<" \o v.str \o " object>"

ReprRaises(v) == v.type = "badrepr"

\* Exceptions.  isException is FALSE for BaseException subclasses that are
\* not Exception subclasses (KeyboardInterrupt, SystemExit).
NoExc == [cls |-> "", isException |-> FALSE, msg |-> ""]
ValueErrorMsg == [cls |-> "ValueError", isException |-> TRUE, msg |-> "bad date"]
ValueErrorEmpty == [cls |-> "ValueError", isException |-> TRUE, msg |-> ""]
KeyboardInterruptExc == [cls |-> "KeyboardInterrupt", isException |-> FALSE, msg |-> ""]
\* raised by print() inside the renderer (closed pipe, console encoding)
PrintError == [cls |-> "UnicodeEncodeError", isException |-> TRUE, msg |-> "cannot encode"]
\* raised by repr() of an argument while the event is built
ReprError == [cls |-> "ReprError", isException |-> TRUE, msg |-> "repr failed"]
\* raised by None.split() when response.text is None
AttributeError == [cls |-> "AttributeError", isException |-> TRUE, msg |-> "no attribute split"]

\* str(exc)
StrExc(e) == e.msg

\* -------------------------------------------------------- configuration
Modes == {"cli", "file", "webhook", "disabled"}
DisplayLevels == {"quiet", "normal", "verbose"}

TrackingConfig ==
    [mode |-> "cli", display_level |-> "normal",
     show_parameters |-> TRUE, show_execution_time |-> TRUE,
     show_timestamps |-> TRUE, use_colors |-> TRUE,
     session_color |-> "cyan", function_color |-> "green",
     llm_color |-> "blue", api_color |-> "yellow", error_color |-> "red"]

\* compares with the wrong member of TrackingMode
is_tracking_enabled_wrong_member(cfg) == cfg.mode # "webhook"

is_tracking_enabled(cfg) == cfg.mode # "disabled"

\* builds a new configuration around the mode
set_tracking_mode_new_config(cfg, mode) == [TrackingConfig EXCEPT !.mode = mode]

set_tracking_mode(cfg, mode) == [cfg EXCEPT !.mode = mode]

set_display_level(cfg, level) == [cfg EXCEPT !.display_level = level]

\* --------------------------------------------------------------- events
NoParams == <<>>
NoText == <<>>
NoCost == [num |-> 0, den |-> 0]

\* BaseEvent and its subclasses as one record shape; cls is the Python
\* class, event_type the discriminant tag (default FUNCTION_CALL).
BaseEvent(cls, id, ts) ==
    [cls |-> cls, event_id |-> id, session_id |-> EmptyId, timestamp |-> ts,
     event_type |-> "function_call",
     user_id |-> NoneStr, name |-> "", parameters |-> NoParams,
     time_ms |-> -1, success |-> TRUE, return_value |-> NoneStr,
     error_message |-> NoneStr,
     prompt_length |-> 0, response_length |-> 0, tokens_used |-> -1,
     model_name |-> << >>,
     estimated_cost |-> NoCost, user_input |-> NoneStr, llm_response |-> NoText,
     status_code |-> -1, endpoint |-> "", error_type |-> "",
     stack_trace |-> NoneStr]

SessionEvent(id, ts, sid, tag, user) ==
    [BaseEvent("SessionEvent", id, ts) EXCEPT
        !.session_id = sid, !.event_type = tag, !.user_id = user]

FunctionCallEvent(id, ts, fname, params, ms, ok, ret, err) ==
    [BaseEvent("FunctionCallEvent", id, ts) EXCEPT
        !.name = fname, !.parameters = params, !.time_ms = ms,
        !.success = ok, !.return_value = ret, !.error_message = err]

LLMCallEvent(id, ts, model, plen, rlen, tokens, cost, ms, ok, uin, resp, err) ==
    [BaseEvent("LLMCallEvent", id, ts) EXCEPT
        !.event_type = "llm_call", !.model_name = model, !.prompt_length = plen,
        !.response_length = rlen, !.tokens_used = tokens,
        !.estimated_cost = cost, !.time_ms = ms, !.success = ok,
        !.user_input = uin, !.llm_response = resp, !.error_message = err]

APICallEvent(id, ts, tag, api, endpoint, ok, status, err) ==
    [BaseEvent("APICallEvent", id, ts) EXCEPT
        !.event_type = tag, !.name = api, !.endpoint = endpoint, !.success = ok,
        !.status_code = status, !.error_message = err]

ErrorEvent(id, ts, tag, etype, msg, fname, stack) ==
    [BaseEvent("ErrorEvent", id, ts) EXCEPT
        !.event_type = tag, !.name = fname, !.error_message = msg,
        !.error_type = etype, !.stack_trace = stack]

\* ------------------------------------------------------------- renderer
\* One printed line: what the f-string of the display function contains.
\* ts / ms are -1 when the part is left out, err is NoneStr when the
\* " | Error: ..." suffix is left out, extras names the optional parts.
Line(icon, ts, ms, extras, err, color) ==
    [icon |-> icon, ts |-> ts, ms |-> ms, extras |-> extras, err |-> err,
     color |-> color]

ColorNames == {"red", "green", "yellow", "blue", "magenta", "cyan", "white"}

colorize(cfg, color) ==
    IF ~cfg.use_colors THEN "plain"
    ELSE IF color \in ColorNames THEN color ELSE "reset"

format_timestamp(cfg, timestamp) ==
    IF cfg.show_timestamps THEN timestamp ELSE -1

format_execution_time(cfg, time_ms) ==
    IF ~cfg.show_execution_time \/ time_ms = -1 THEN -1 ELSE time_ms

\* truthiness of an Optional[str] field
StrTruthy(s) == s # NoneStr /\ s # ""

\* the suffix for every failed event, whatever its error_message
ErrSuffix_whenever_failed(event) ==
    IF ~event.success THEN event.error_message ELSE NoneStr

ErrSuffix(event) ==
    IF ~event.success /\ StrTruthy(event.error_message)
    THEN event.error_message ELSE NoneStr

display_session_event(event, cfg) ==
    IF event.event_type = "session_start"
    THEN << Line("session_started", format_timestamp(cfg, event.timestamp), -1,
                 IF cfg.display_level = "verbose" THEN {"id"} ELSE {},
                 NoneStr, colorize(cfg, cfg.session_color)) >>
    ELSE IF event.event_type = "session_end"
    THEN << Line("session_ended", format_timestamp(cfg, event.timestamp), -1,
                 {}, NoneStr, colorize(cfg, cfg.session_color)) >>
    ELSE << >>

\* display_function_event without the early return at quiet level
display_function_event_at_every_level(event, cfg) ==
    << Line(IF event.success THEN "ok" ELSE "fail",
            format_timestamp(cfg, event.timestamp),
            format_execution_time(cfg, event.time_ms), {},
            ErrSuffix(event),
            colorize(cfg, IF event.success THEN cfg.function_color
                          ELSE cfg.error_color)) >>

display_function_event(event, cfg) ==
    IF cfg.display_level = "quiet" THEN << >>
    ELSE << Line(IF event.success THEN "ok" ELSE "fail",
                 format_timestamp(cfg, event.timestamp),
                 format_execution_time(cfg, event.time_ms),
                 IF cfg.show_parameters /\ cfg.display_level = "verbose"
                    /\ event.parameters # NoParams
                 THEN {"params"} ELSE {},
                 ErrSuffix(event),
                 colorize(cfg, IF event.success THEN cfg.function_color
                               ELSE cfg.error_color)) >>

display_llm_event(event, cfg) ==
    IF cfg.display_level = "quiet" THEN << >>
    ELSE << Line(IF event.success THEN "robot" ELSE "fail",
                 format_timestamp(cfg, event.timestamp),
                 format_execution_time(cfg, event.time_ms),
                 (IF event.tokens_used # -1 /\ event.tokens_used # 0
                  THEN {"tokens"} ELSE {})
                 \cup (IF event.estimated_cost.num # 0 THEN {"cost"} ELSE {})
                 \cup (IF cfg.display_level = "verbose"
                          /\ StrTruthy(event.user_input)
                       THEN {"input"} ELSE {}),
                 ErrSuffix(event),
                 colorize(cfg, IF event.success THEN cfg.llm_color
                               ELSE cfg.error_color)) >>

display_api_event(event, cfg) ==
    IF cfg.display_level = "quiet" THEN << >>
    ELSE << Line(IF event.success THEN "globe" ELSE "fail",
                 format_timestamp(cfg, event.timestamp),
                 format_execution_time(cfg, event.time_ms),
                 (IF event.status_code # -1 /\ event.status_code # 0
                  THEN {"status"} ELSE {})
                 \cup (IF cfg.display_level = "verbose" /\ event.endpoint # ""
                       THEN {"endpoint"} ELSE {}),
                 ErrSuffix(event),
                 colorize(cfg, IF event.success THEN cfg.api_color
                               ELSE cfg.error_color)) >>

display_error_event(event, cfg) ==
    << Line("error", format_timestamp(cfg, event.timestamp), -1,
            IF event.name # "" THEN {"function"} ELSE {},
            event.error_message, colorize(cfg, cfg.error_color)) >>
    \o (IF cfg.display_level = "verbose" /\ StrTruthy(event.stack_trace)
        THEN << Line("stack", -1, -1, {"stack"}, NoneStr,
                     colorize(cfg, cfg.error_color)) >>
        ELSE << >>)

\* display_event that prints in every mode in which tracking is enabled
display_event_in_every_enabled_mode(event, cfg) ==
    IF ~is_tracking_enabled(cfg) THEN << >>
    ELSE CASE event.cls = "SessionEvent" -> display_session_event(event, cfg)
           [] event.cls = "FunctionCallEvent" -> display_function_event(event, cfg)
           [] event.cls = "LLMCallEvent" -> display_llm_event(event, cfg)
           [] event.cls = "APICallEvent" -> display_api_event(event, cfg)
           [] event.cls = "ErrorEvent" -> display_error_event(event, cfg)
           [] OTHER -> << >>

\* display_event: the lines it prints when every print() succeeds
display_event(event, cfg) ==
    IF ~is_tracking_enabled(cfg) \/ cfg.mode # "cli" THEN << >>
    ELSE CASE event.cls = "SessionEvent" -> display_session_event(event, cfg)
           [] event.cls = "FunctionCallEvent" -> display_function_event(event, cfg)
           [] event.cls = "LLMCallEvent" -> display_llm_event(event, cfg)
           [] event.cls = "APICallEvent" -> display_api_event(event, cfg)
           [] event.cls = "ErrorEvent" -> display_error_event(event, cfg)
           [] OTHER -> << >>

\* a line of the summary: icon names the line, color is "none" for a
\* print() without colorize
SummaryLine(icon, color) == Line(icon, -1, -1, {}, NoneStr, color)

\* display_session_summary: the lines it prints when every print()
\* succeeds; summary is the record get_session_summary returns
display_session_summary(summary, cfg) ==
    IF ~is_tracking_enabled(cfg) \/ cfg.mode # "cli" THEN << >>
    ELSE << SummaryLine("rule", "none"),
            SummaryLine("title", colorize(cfg, cfg.session_color)),
            SummaryLine("rule", "none") >>
         \o (IF summary.has_total_time /\ summary.total_time_seconds # 0
             THEN << SummaryLine("duration", "none") >> ELSE << >>)
         \o << SummaryLine("function_calls", "none"),
               SummaryLine("llm_calls", "none"),
               SummaryLine("api_calls", "none") >>
         \o (IF summary.errors_count > 0
             THEN << SummaryLine("errors", colorize(cfg, cfg.error_color)) >>
             ELSE << >>)
         \o (IF summary.total_estimated_cost.num > 0
             THEN << SummaryLine("cost",
                        colorize(cfg,
                           IF summary.total_estimated_cost.num * 10
                                 > summary.total_estimated_cost.den
                           THEN cfg.error_color ELSE cfg.function_color)) >>
             ELSE << >>)
         \o << SummaryLine("rule", "none") >>

\* ------------------------------------------------------------- registry
\* The registry's globals as one record R:
\*   cur    current_session_id          events session_events
\*   uuids  number of uuid4() calls     log    history of the appends: the
\*          event appended and the value of current_session_id at that time
LogEntry(event, cur) == [id |-> event.event_id, sid |-> cur]

\* start_session that appends to the old buffer instead of replacing it
start_session_keeps_buffer(R, user_id, ts) ==
    LET sid == R.uuids + 1
        event == SessionEvent(R.uuids + 2, ts, sid, "session_start", user_id)
    IN [cur |-> sid, events |-> Append(R.events, event), uuids |-> R.uuids + 2,
        log |-> Append(R.log, LogEntry(event, sid))]

\* start_session that keeps the identifier of a session that is active
start_session_keeps_active_id(R, user_id, ts) ==
    LET sid == IF R.cur # EmptyId THEN R.cur ELSE R.uuids + 1
        event == SessionEvent(R.uuids + 2, ts, sid, "session_start", user_id)
    IN [cur |-> sid, events |-> << event >>, uuids |-> R.uuids + 2,
        log |-> << LogEntry(event, sid) >>]

start_session_fn(R, user_id, ts) ==
    LET sid == R.uuids + 1
        event == SessionEvent(R.uuids + 2, ts, sid, "session_start", user_id)
    IN [cur |-> sid, events |-> << event >>, uuids |-> R.uuids + 2,
        log |-> << LogEntry(event, sid) >>]

\* end_session that clears the marker before it builds the event
end_session_clears_first(R, ts) ==
    LET event == SessionEvent(R.uuids + 1, ts, EmptyId, "session_end", NoneStr)
    IN [cur |-> EmptyId, events |-> Append(R.events, event),
        uuids |-> R.uuids + 1, log |-> Append(R.log, LogEntry(event, EmptyId))]

\* end_session that leaves the marker set
end_session_keeps_marker(R, ts) ==
    LET event == SessionEvent(R.uuids + 1, ts, R.cur, "session_end", NoneStr)
    IN [cur |-> R.cur, events |-> Append(R.events, event),
        uuids |-> R.uuids + 1, log |-> Append(R.log, LogEntry(event, R.cur))]

\* end_session that does nothing when no session is active
end_session_ignores_inactive(R, ts) ==
    LET event == SessionEvent(R.uuids + 1, ts, R.cur, "session_end", NoneStr)
    IN IF R.cur = EmptyId THEN R
       ELSE [cur |-> EmptyId, events |-> Append(R.events, event),
             uuids |-> R.uuids + 1, log |-> Append(R.log, LogEntry(event, R.cur))]

end_session_fn(R, ts) ==
    LET event == SessionEvent(R.uuids + 1, ts, R.cur, "session_end", NoneStr)
    IN [cur |-> EmptyId, events |-> Append(R.events, event),
        uuids |-> R.uuids + 1, log |-> Append(R.log, LogEntry(event, R.cur))]

\* event.session_id = ... writes to the object; every buffer entry that is
\* this same object (same event_id) sees the write.
Restamp(events, event) ==
    [i \in 1..Len(events) |->
        IF events[i].event_id = event.event_id
        THEN [events[i] EXCEPT !.session_id = event.session_id]
        ELSE events[i]]

\* the id read before the implicit start_session
StampWithStale(R, R1) == R.cur

\* the id emit_event writes into the event: current_session_id as it is
\* after the implicit start_session (R before it, R1 after it)
StampWith(R, R1) == R1.cur

\* emit_event without the implicit start_session
emit_event_no_autostart(R, event, cfg, ts, printFails) ==
    LET stamped == [event EXCEPT !.session_id = R.cur]
        lines == display_event(stamped, cfg)
        raises == lines # << >> /\ printFails
    IN [R |-> [R EXCEPT !.events = Append(Restamp(R.events, stamped), stamped),
                        !.log = Append(R.log, LogEntry(stamped, R.cur))],
        event |-> stamped,
        printed |-> IF raises THEN << >> ELSE lines,
        exc |-> IF raises THEN PrintError ELSE NoExc]

\* emit_event: R after the call, the stamped event object, what was
\* printed, and the exception leaving emit_event (NoExc when it returns).
\* printFails: print() raises in the renderer.
\* emit_event that does nothing while tracking is disabled
emit_event_when_enabled(R, event, cfg, ts, printFails) ==
    LET R1 == IF R.cur = EmptyId THEN start_session_fn(R, NoneStr, ts) ELSE R
        stamped == [event EXCEPT !.session_id = StampWith(R, R1)]
        lines == display_event(stamped, cfg)
        raises == lines # << >> /\ printFails
    IN IF cfg.mode = "disabled"
       THEN [R |-> R, event |-> event, printed |-> << >>, exc |-> NoExc]
       ELSE [R |-> [R1 EXCEPT !.events = Append(Restamp(R1.events, stamped), stamped),
                              !.log = Append(R1.log, LogEntry(stamped, R1.cur))],
             event |-> stamped,
             printed |-> IF raises THEN << >> ELSE lines,
             exc |-> IF raises THEN PrintError ELSE NoExc]

\* emit_event that leaves the event's session_id as the caller built it
emit_event_leaves_session_id(R, event, cfg, ts, printFails) ==
    LET R1 == IF R.cur = EmptyId THEN start_session_fn(R, NoneStr, ts) ELSE R
        lines == display_event(event, cfg)
        raises == lines # << >> /\ printFails
    IN [R |-> [R1 EXCEPT !.events = Append(R1.events, event),
                         !.log = Append(R1.log, LogEntry(event, R1.cur))],
        event |-> event,
        printed |-> IF raises THEN << >> ELSE lines,
        exc |-> IF raises THEN PrintError ELSE NoExc]

emit_event_fn(R, event, cfg, ts, printFails) ==
    LET R1 == IF R.cur = EmptyId THEN start_session_fn(R, NoneStr, ts) ELSE R
        stamped == [event EXCEPT !.session_id = StampWith(R, R1)]
        lines == display_event(stamped, cfg)
        raises == lines # << >> /\ printFails
    IN [R |-> [R1 EXCEPT !.events = Append(Restamp(R1.events, stamped), stamped),
                         !.log = Append(R1.log, LogEntry(stamped, R1.cur))],
        event |-> stamped,
        printed |-> IF raises THEN << >> ELSE lines,
        exc |-> IF raises THEN PrintError ELSE NoExc]

\* The list get_session_events returns: `list` tells which list object it
\* is ("copy": a list of its own, "buffer": the registry's list itself),
\* items the event objects it holds.
NoList == [list |-> "none", items |-> << >>]

\* get_session_events that returns the registry's list itself
get_session_events_returns_buffer(R) == [list |-> "buffer", items |-> R.events]

get_session_events(R) == [list |-> "copy", items |-> R.events]

\* What a list a caller holds shows after a registry call that left the
\* buffer `events`: the registry's own list follows the appends until
\* start_session rebinds session_events to a new list; any other list keeps
\* its items, which are the event objects themselves, so that the object
\* emit_event stamped (`stamped`) shows its new session_id.
Follow(held, rebinds, events, stamped) ==
    IF held.list = "buffer" /\ ~rebinds
    THEN [held EXCEPT !.items = events]
    ELSE [list |-> IF held.list = "buffer" THEN "copy" ELSE held.list,
          items |-> [i \in DOMAIN held.items |->
                        IF held.items[i].event_id = stamped.event_id
                        THEN stamped ELSE held.items[i]]]

\* -------------------------------------------------------------- summary
\* `x or 0` / sum() over estimated_cost, on fractions
ZeroCost == [num |-> 0, den |-> 1]
CostOrZero(c) == IF c.num = 0 THEN ZeroCost ELSE c
FracAdd(a, b) ==
    IF a.num = 0 THEN b
    ELSE IF b.num = 0 THEN a
    ELSE IF a.den = b.den THEN [num |-> a.num + b.num, den |-> a.den]
    ELSE [num |-> a.num * b.den + b.num * a.den, den |-> a.den * b.den]

\* the cost of the first event only
SumCost_of_first_event(events) ==
    IF events = << >> THEN ZeroCost ELSE CostOrZero(Head(events).estimated_cost)

RECURSIVE SumCost(_)
SumCost(events) ==
    IF events = << >> THEN ZeroCost
    ELSE FracAdd(CostOrZero(Head(events).estimated_cost), SumCost(Tail(events)))

\* [e for e in session_events if e.event_type == tag]
WithTag(events, tag) == SelectSeq(events, LAMBDA e : e.event_type = tag)

\* the list of events counted as errors, with failed calls added to it
ErrorsOf_with_failed_calls(events) ==
    SelectSeq(events, LAMBDA e : e.event_type = "error" \/ ~e.success)

\* errors = [e for e in session_events if e.event_type == EventType.ERROR]
ErrorsOf(events) == WithTag(events, "error")

\* the last match instead of the first
LastOf(matches) == matches[Len(matches)]

\* next((e for e in ... ), None) on a non-empty list of matches
FirstOf(matches) == Head(matches)

\* reads estimated_cost on every buffered event
SummaryRaises_reads_all_events(R) ==
    \E i \in 1..Len(R.events) : R.events[i].cls # "LLMCallEvent"

\* the dict returned for an empty buffer ({}): no key is present
EmptySummary ==
    [empty |-> TRUE, session_id |-> EmptyId,
     has_total_time |-> FALSE, total_time_seconds |-> 0,
     function_calls_count |-> 0, llm_calls_count |-> 0,
     api_calls_count |-> 0, errors_count |-> 0,
     total_estimated_cost |-> ZeroCost,
     has_session_start |-> FALSE, session_start |-> 0,
     has_session_end |-> FALSE, session_end |-> 0]

\* e.estimated_cost is read on every event tagged LLM_CALL: an event of
\* another class with that tag has no such attribute
SummaryRaises(R) ==
    \E i \in 1..Len(R.events) :
        R.events[i].event_type = "llm_call" /\ R.events[i].cls # "LLMCallEvent"

\* get_session_summary that reports the session id stamped on the first
\* buffered event
get_session_summary_id_of_events(R) ==
    IF R.events = << >> THEN EmptySummary
    ELSE
    LET starts == WithTag(R.events, "session_start")
        ends == WithTag(R.events, "session_end")
        has_start == starts # << >>
        has_end == ends # << >>
    IN [empty |-> FALSE, session_id |-> R.events[1].session_id,
        has_total_time |-> has_start /\ has_end,
        total_time_seconds |->
            IF has_start /\ has_end
            THEN FirstOf(ends).timestamp - FirstOf(starts).timestamp ELSE 0,
        function_calls_count |-> Len(WithTag(R.events, "function_call")),
        llm_calls_count |-> Len(WithTag(R.events, "llm_call")),
        api_calls_count |-> Len(WithTag(R.events, "api_call")),
        errors_count |-> Len(ErrorsOf(R.events)),
        total_estimated_cost |-> SumCost(WithTag(R.events, "llm_call")),
        has_session_start |-> has_start,
        session_start |-> IF has_start THEN FirstOf(starts).timestamp ELSE 0,
        has_session_end |-> has_end,
        session_end |-> IF has_end THEN FirstOf(ends).timestamp ELSE 0]

\* get_session_summary when it returns; has_x is FALSE where the dict holds
\* None
get_session_summary(R) ==
    IF R.events = << >> THEN EmptySummary
    ELSE
    LET function_calls == WithTag(R.events, "function_call")
        llm_calls == WithTag(R.events, "llm_call")
        api_calls == WithTag(R.events, "api_call")
        errors == ErrorsOf(R.events)
        starts == WithTag(R.events, "session_start")
        ends == WithTag(R.events, "session_end")
        has_start == starts # << >>
        has_end == ends # << >>
    IN [empty |-> FALSE, session_id |-> R.cur,
        has_total_time |-> has_start /\ has_end,
        total_time_seconds |->
            IF has_start /\ has_end
            THEN FirstOf(ends).timestamp - FirstOf(starts).timestamp ELSE 0,
        function_calls_count |-> Len(function_calls),
        llm_calls_count |-> Len(llm_calls),
        api_calls_count |-> Len(api_calls),
        errors_count |-> Len(errors),
        total_estimated_cost |-> SumCost(llm_calls),
        has_session_start |-> has_start,
        session_start |-> IF has_start THEN FirstOf(starts).timestamp ELSE 0,
        has_session_end |-> has_end,
        session_end |-> IF has_end THEN FirstOf(ends).timestamp ELSE 0]

\* ------------------------------------------------------------- wrappers
\* What a call does: it returns value, or raises exc.
Returned(v) == [kind |-> "return", value |-> v, exc |-> NoExc]
Raised(e) == [kind |-> "raise", value |-> PyNone, exc |-> e]

\* kwargs is a sequence of <<name, value>> pairs (dict order).
RECURSIVE KwGet(_, _, _)
KwGet(kwargs, key, default) ==
    IF kwargs = << >> THEN default
    ELSE IF Head(kwargs)[1] = key THEN Head(kwargs)[2]
    ELSE KwGet(Tail(kwargs), key, default)

\* params_to_log: arg_i for the positional arguments after the first, then
\* the named arguments, each with its repr()
params_to_log(args, kwargs) ==
    [i \in 1..(Len(args) - 1) |-> << "arg_" \o ToString(i), Repr(args[i + 1]) >>]
    \o [j \in 1..Len(kwargs) |-> << kwargs[j][1], Repr(kwargs[j][2]) >>]

\* repr() raises while params_to_log or return_value is computed
BuildRaises(args, kwargs, return_value) ==
    \/ \E i \in 2..Len(args) : ReprRaises(args[i])
    \/ \E j \in 1..Len(kwargs) : ReprRaises(kwargs[j][2])
    \/ Truthy(return_value) /\ ReprRaises(return_value)

\* `except Exception as e: error = e`: a BaseException that is not an
\* Exception passes the handler and leaves error = None
CaughtError(outcome) ==
    IF outcome.kind = "raise" /\ outcome.exc.isException THEN outcome.exc ELSE NoExc

\* track_function.wrapper, tracking enabled.  call: the wrapped function and
\* its inputs, outcome what func(*args, **kwargs) does, t0 the clock at
\* entry, d the time the call takes.
track_function_fn(R, cfg, call, t0, d, printFails) ==
    LET outcome == call.outcome
        error == CaughtError(outcome)
        return_value == IF outcome.kind = "return" THEN outcome.value ELSE PyNone
        t1 == t0 + d
        event == FunctionCallEvent(R.uuids + 1, t1, call.name,
                    params_to_log(call.args, call.kwargs), (t1 - t0) * 1000,
                    error = NoExc,
                    IF Truthy(return_value) THEN Repr(return_value) ELSE NoneStr,
                    IF error # NoExc THEN StrExc(error) ELSE NoneStr)
        em == emit_event_fn([R EXCEPT !.uuids = R.uuids + 1], event, cfg, t1,
                            printFails)
    IN IF BuildRaises(call.args, call.kwargs, return_value)
       THEN [R |-> R, printed |-> << >>, outcome |-> Raised(ReprError)]
       ELSE [R |-> em.R, printed |-> em.printed,
             outcome |-> IF em.exc # NoExc THEN Raised(em.exc) ELSE outcome]

\* track_function.wrapper that emits an event for the call before making it
track_function_entry_emits(R, cfg, call, t0) ==
    track_function_fn(R, cfg, call, t0, 0, FALSE).R

\* track_function.wrapper, tracking enabled, up to the call of func: only
\* locals are set (start_time, error, return_value)
track_function_entry(R, cfg, call, t0) == R

\* ---- text helpers for the LLM wrapper
Whitespace == {" ", "\t", "\n"}

\* len(text) without its whitespace
WordCount_counts_characters(cs) == Len(SelectSeq(cs, LAMBDA c : c \notin Whitespace))

\* len(text.split())
RECURSIVE WordCount(_)
WordCount(cs) ==
    IF cs = << >> THEN 0
    ELSE IF Head(cs) \in Whitespace THEN WordCount(Tail(cs))
    ELSE IF Len(cs) = 1 \/ cs[2] \in Whitespace THEN 1 + WordCount(Tail(cs))
    ELSE WordCount(Tail(cs))

\* text.split('/')[-1]
RECURSIVE LastSegment(_)
LastSegment(cs) ==
    IF \E i \in 1..Len(cs) : cs[i] = "/"
    THEN LastSegment(Tail(cs))
    ELSE cs

UnknownModel == << "u", "n", "k", "n", "o", "w", "n", "_", "m", "o", "d", "e", "l" >>

\* $0.0001 per 1K tokens, as the fraction RateNum / RateDen
RateNum == 1
RateDen == 10000

\* (total_tokens / 1000) * 0.0001 as a fraction
EstimatedCost(total_tokens) ==
    [num |-> total_tokens * RateNum, den |-> 1000 * RateDen]

\* track_llm.wrapper, tracking enabled
track_llm_fn(R, cfg, call, t0, d, printFails) ==
    LET args == call.args
        kwargs == call.kwargs
        prompt == KwGet(kwargs, "prompt", IF Len(args) > 2 THEN args[3] ELSE PyNone)
        model_obj == KwGet(kwargs, "model", IF Len(args) > 1 THEN args[2] ELSE PyNone)
        model_name == IF Truthy(model_obj) /\ model_obj.type = "model"
                      THEN model_obj.chars ELSE UnknownModel
        uin == KwGet(kwargs, "user_input", PyNone)
        outcome == call.outcome
        error == CaughtError(outcome)
        response == IF outcome.kind = "return" THEN outcome.value ELSE PyNone
        t1 == t0 + d
        textIsNone == Truthy(response) /\ response.type = "response"
                      /\ ~response.hasText
        llm_response_text == IF Truthy(response) /\ response.type = "response"
                             THEN response.chars ELSE << >>
        prompt_tokens == IF Truthy(prompt) THEN WordCount(prompt.chars) ELSE 0
        response_tokens == WordCount(llm_response_text)
        total_tokens == prompt_tokens + response_tokens
        event == LLMCallEvent(R.uuids + 1, t1, LastSegment(model_name),
                    IF Truthy(prompt) THEN Len(prompt.chars) ELSE 0,
                    Len(llm_response_text), total_tokens,
                    EstimatedCost(total_tokens), (t1 - t0) * 1000,
                    error = NoExc,
                    IF uin.type = "str" THEN uin.str ELSE NoneStr,
                    llm_response_text,
                    IF error # NoExc THEN StrExc(error) ELSE NoneStr)
        em == emit_event_fn([R EXCEPT !.uuids = R.uuids + 1], event, cfg, t1,
                            printFails)
    IN IF textIsNone
       THEN [R |-> R, printed |-> << >>, outcome |-> Raised(AttributeError)]
       ELSE [R |-> em.R, printed |-> em.printed,
             outcome |-> IF em.exc # NoExc THEN Raised(em.exc) ELSE outcome]

\* ---------------------------------------------------------------- state
VARIABLES
    current_session_id,  \* events.py global: "" (EmptyId) or the active id
    session_events,      \* events.py global: the buffer
    tracking_config,     \* config.py global
    uuid_count,          \* number of uuid4() values generated so far
    now,                 \* the clock
    pending,             \* an event object built by a caller, or NoEvent
    result,              \* the last call: what it was and what it gave back
    printed,             \* the lines the last call printed
    emit_log,            \* history: LogEntry of every append since the reset
    held_events,         \* the list a caller got from get_session_events
    threads,             \* the calls threads are making, statement by statement
    call_stack           \* the wrapped calls that are running, innermost last

vars == << current_session_id, session_events, tracking_config, uuid_count,
           now, pending, result, printed, emit_log, held_events, threads,
           call_stack >>

NoEvent == BaseEvent("None", 0, 0)

\* A thread: op the function it called ("" before the call), pc the
\* statement it is about to run, event the argument of emit_event, overlaps
\* whether a start_session call was running or began since its own call
\* began.
Threads == 1..MaxThreads
NoThread == [op |-> "", pc |-> "idle", event |-> NoEvent, overlaps |-> FALSE]
NoCall == [name |-> "", args |-> << >>, kwargs |-> << >>, takes |-> 0,
           outcome |-> Returned(PyNone)]

\* result: op the operation, call the wrapped call (wrappers only), outcome
\* the return value or exception the caller sees, sid the returned id
\* (start_session / end_session), before the value current_session_id had
\* when the call was made, summary the dict returned by
\* get_session_summary.
Result(op, call, outcome, sid) ==
    [op |-> op, call |-> call, outcome |-> outcome, sid |-> sid,
     before |-> current_session_id, summary |-> EmptySummary]

Reg == [cur |-> current_session_id, events |-> session_events,
        uuids |-> uuid_count, log |-> emit_log]

SetReg(R) ==
    /\ current_session_id' = R.cur
    /\ session_events' = R.events
    /\ uuid_count' = R.uuids
    /\ emit_log' = R.log

\* emit_event called start_session on the way to the registry state R
AutoStarted(R) == current_session_id = EmptyId /\ R.cur # EmptyId

\* ---- inputs
UserIds == {NoneStr, "alice"}

Service == PyObj("service")

\* wrapped plain functions and the calls made to them: the arguments, the
\* time the call takes and what it does
FunctionCalls ==
    { [name |-> "create_event", args |-> << Service, PyStr("lunch") >>,
       kwargs |-> << >>, takes |-> 1, outcome |-> Returned(PyStr("created"))],
      [name |-> "count_events", args |-> << PyInt(5) >>,
       kwargs |-> << >>, takes |-> 0, outcome |-> Returned(PyInt(0))],
      [name |-> "delete_event", args |-> << Service >>,
       kwargs |-> << << "day", PyInt(1) >> >>, takes |-> 0, outcome |-> Raised(ValueErrorMsg)],
      [name |-> "parse_date", args |-> << >>,
       kwargs |-> << >>, takes |-> 0, outcome |-> Raised(ValueErrorEmpty)],
      [name |-> "list_events", args |-> << Service >>,
       kwargs |-> << >>, takes |-> 0, outcome |-> Raised(KeyboardInterruptExc)],
      [name |-> "update_event", args |-> << Service, PyBadRepr >>,
       kwargs |-> << >>, takes |-> 0, outcome |-> Returned(PyNone)] }

\* values a wrapped function returns: falsy ones and truthy ones
FalsyValues == {PyNone, PyInt(0), PyBool(FALSE), PyStr(""), PyList(0)}
TruthyValues == {PyInt(5), PyBool(TRUE), PyStr("created"), PyList(1), Service}

\* calls of a wrapped function that returns each of the values, or raises
ReturnCalls ==
    { [name |-> "find_event", args |-> << >>, kwargs |-> << >>, takes |-> 0,
       outcome |-> Returned(v)] : v \in FalsyValues \cup TruthyValues }
    \cup { [name |-> "find_event", args |-> << >>, kwargs |-> << >>, takes |-> 0,
            outcome |-> Raised(ValueErrorMsg)] }

Gemini == PyModel(<< "m", "/", "g" >>)
Prompt == PyText(<< "a", " ", "b" >>)

\* wrapped LLM functions and the calls made to them
LLMCalls ==
    { [name |-> "call_llm", args |-> << Service, Gemini, Prompt >>,
       kwargs |-> << >>, takes |-> 1,
       outcome |-> Returned(PyResponse(<< "o", "k" >>))],
      [name |-> "call_llm", args |-> << Service, Gemini, Prompt >>,
       kwargs |-> << << "user_input", PyStr("hi") >> >>, takes |-> 0,
       outcome |-> Raised(ValueErrorMsg)],
      [name |-> "call_llm", args |-> << Service >>,
       kwargs |-> << << "prompt", Prompt >> >>, takes |-> 0,
       outcome |-> Returned(PyResponseNoText)] }

\* texts of words of the letter a
TextAlphabet == {"a", " "}
Texts == UNION {[1..n -> TextAlphabet] : n \in 0..MaxTextLen}

\* calls that hand a model handle and a prompt text to a wrapped LLM
\* function and get a response with text: the function is a method (the
\* receiver comes first), takes them by name, or is a plain function
TextCalls ==
    UNION {
        { [name |-> "generate", args |-> << Service, Gemini, PyText(p) >>,
           kwargs |-> << >>, takes |-> 0, outcome |-> Returned(PyResponse(r))],
          [name |-> "generate", args |-> << Service >>,
           kwargs |-> << << "model", Gemini >>, << "prompt", PyText(p) >> >>,
           takes |-> 0, outcome |-> Returned(PyResponse(r))],
          [name |-> "generate", args |-> << Gemini, PyText(p) >>,
           kwargs |-> << >>, takes |-> 0, outcome |-> Returned(PyResponse(r))] }
        : p \in Texts, r \in Texts }

\* calls of a wrapped LLM function that raise: an error with a message, one
\* without, and one that is not an Exception
RaisingLLMCalls ==
    { [name |-> "call_llm", args |-> << Service, Gemini, Prompt >>,
       kwargs |-> << >>, takes |-> 0, outcome |-> Raised(exc)]
      : exc \in {ValueErrorMsg, ValueErrorEmpty, KeyboardInterruptExc} }

\* the calls made in the sessions that are summarised: one that returns and
\* one that raises, and an LLM call with a cost
SummaryFunctionCalls ==
    {call \in FunctionCalls : call.name \in {"count_events", "delete_event"}}
SummaryLLMCalls ==
    {call \in LLMCalls : call.outcome.kind = "return" /\ call.outcome.value.hasText}

\* print() is only called, and so can only fail, in cli mode
PrintOutcomes(cfg) == IF cfg.mode = "cli" THEN BOOLEAN ELSE {FALSE}

\* event objects callers build themselves and pass to emit_event
Templates == {"error", "error_default_tag", "api_failed"}

\* event objects handed to the renderer: every class, succeeded and failed
DisplayTemplates ==
    Templates \cup {"api_ok", "function_ok", "function_failed", "llm_ok",
                    "llm_failed", "session_start", "session_end",
                    "function_failed_no_message"}

\* summaries handed to the renderer: of an empty buffer, of an active
\* session, of an ended session with errors and a cost, and of a session
\* that cost more than $0.10
Summaries ==
    { EmptySummary,
      [EmptySummary EXCEPT !.empty = FALSE, !.session_id = 1,
          !.function_calls_count = 2, !.has_session_start = TRUE],
      [EmptySummary EXCEPT !.empty = FALSE, !.has_total_time = TRUE,
          !.total_time_seconds = 1, !.llm_calls_count = 1, !.errors_count = 1,
          !.total_estimated_cost = EstimatedCost(3),
          !.has_session_start = TRUE, !.has_session_end = TRUE,
          !.session_end = 1],
      [EmptySummary EXCEPT !.empty = FALSE, !.llm_calls_count = 2,
          !.total_estimated_cost = [num |-> 2, den |-> 10],
          !.has_session_start = TRUE] }

\* event objects with and without a cost: LLMCall events as the wrapper
\* builds them, an LLMCallEvent built with nothing but its tag, one built
\* with the default tag, and an Error event
CostTemplates == {"llm_ok", "llm_failed", "llm_no_cost", "llm_default_tag", "error"}

NewEvent(template, id, ts) ==
    CASE template = "error" ->
            ErrorEvent(id, ts, "error", "ValueError", "boom", "", NoneStr)
      [] template = "error_default_tag" ->
            ErrorEvent(id, ts, "function_call", "ValueError", "boom", "", NoneStr)
      [] template = "api_failed" ->
            APICallEvent(id, ts, "api_call", "calendar", "/events", FALSE, 500, NoneStr)
      [] template = "api_ok" ->
            APICallEvent(id, ts, "api_call", "calendar", "/events", TRUE, 200, NoneStr)
      [] template = "function_ok" ->
            FunctionCallEvent(id, ts, "count_events", NoParams, 0, TRUE, NoneStr,
                              NoneStr)
      [] template = "function_failed" ->
            FunctionCallEvent(id, ts, "delete_event", NoParams, 0, FALSE, NoneStr,
                              "bad date")
      [] template = "function_failed_no_message" ->
            FunctionCallEvent(id, ts, "parse_date", NoParams, 0, FALSE, NoneStr, "")
      [] template = "llm_ok" ->
            LLMCallEvent(id, ts, << "g" >>, 3, 2, 3, EstimatedCost(3), 0, TRUE,
                         NoneStr, << "o", "k" >>, NoneStr)
      [] template = "llm_failed" ->
            LLMCallEvent(id, ts, << "g" >>, 3, 0, 2, EstimatedCost(2), 0, FALSE,
                         NoneStr, NoText, "bad date")
      [] template = "llm_no_cost" ->
            [BaseEvent("LLMCallEvent", id, ts) EXCEPT !.event_type = "llm_call"]
      [] template = "llm_default_tag" ->
            [LLMCallEvent(id, ts, << "g" >>, 3, 2, 3, EstimatedCost(3), 0, TRUE,
                          NoneStr, << "o", "k" >>, NoneStr)
                EXCEPT !.event_type = "function_call"]
      [] template = "session_start" ->
            SessionEvent(id, ts, EmptyId, "session_start", NoneStr)
      [] template = "session_end" ->
            SessionEvent(id, ts, EmptyId, "session_end", NoneStr)

\* -------------------------------------------------------------- actions
Init ==
    /\ current_session_id = EmptyId
    /\ session_events = << >>
    /\ tracking_config = TrackingConfig
    /\ uuid_count = 0
    /\ now = 0
    /\ pending = NoEvent
    /\ result = Result("init", NoCall, Returned(PyNone), EmptyId)
    /\ printed = << >>
    /\ emit_log = << >>
    /\ held_events = NoList
    /\ threads = [t \in Threads |-> NoThread]
    /\ call_stack = << >>

\* the state after import, with a call of a wrapped LLM function drawn
InitLLM ==
    /\ current_session_id = EmptyId
    /\ session_events = << >>
    /\ tracking_config = TrackingConfig
    /\ uuid_count = 0
    /\ now = 0
    /\ pending = NoEvent
    /\ \E call \in TextCalls :
          result = Result("init", call, Returned(PyNone), EmptyId)
    /\ printed = << >>
    /\ emit_log = << >>
    /\ held_events = NoList
    /\ threads = [t \in Threads |-> NoThread]
    /\ call_stack = << >>

Tick ==
    /\ now < MaxTime
    /\ now' = now + 1
    /\ UNCHANGED << threads, call_stack, current_session_id, session_events, tracking_config,
                    uuid_count, pending, result, printed, emit_log,
                    held_events >>

StartSession(user_id) ==
    /\ uuid_count + 2 <= MaxUuid
    /\ LET R == start_session_fn(Reg, user_id, now)
       IN /\ SetReg(R)
          /\ result' = Result("start_session", NoCall, Returned(PyNone), R.cur)
          /\ held_events' = Follow(held_events, TRUE, R.events, NoEvent)
    /\ printed' = << >>
    /\ UNCHANGED << threads, call_stack, tracking_config, now, pending >>

EndSession ==
    /\ uuid_count + 1 <= MaxUuid
    /\ Len(session_events) < MaxEvents
    /\ LET R == end_session_fn(Reg, now)
       IN /\ SetReg(R)
          /\ result' = Result("end_session", NoCall, Returned(PyNone),
                              current_session_id)
          /\ held_events' = Follow(held_events, FALSE, R.events, NoEvent)
    /\ printed' = << >>
    /\ UNCHANGED << threads, call_stack, tracking_config, now, pending >>

\* a caller builds an event object (it gets its event_id and timestamp now)
Construct(template) ==
    /\ uuid_count + 1 <= MaxUuid
    /\ pending' = NewEvent(template, uuid_count + 1, now)
    /\ uuid_count' = uuid_count + 1
    /\ result' = Result("construct", NoCall, Returned(PyNone), EmptyId)
    /\ printed' = << >>
    /\ UNCHANGED << threads, call_stack, current_session_id, session_events, tracking_config, now,
                    emit_log, held_events >>

\* emit_event(pending)
EmitEvent(printFails) ==
    /\ pending # NoEvent
    /\ IF current_session_id = EmptyId THEN uuid_count + 2 <= MaxUuid
       ELSE Len(session_events) < MaxEvents
    /\ LET em == emit_event_fn(Reg, pending, tracking_config, now, printFails)
       IN /\ SetReg(em.R)
          /\ pending' = em.event
          /\ printed' = em.printed
          /\ result' = Result("emit_event", NoCall,
                              IF em.exc # NoExc THEN Raised(em.exc)
                              ELSE Returned(PyNone), EmptyId)
          /\ held_events' = Follow(held_events, AutoStarted(em.R), em.R.events,
                                   em.event)
    /\ UNCHANGED << threads, call_stack, tracking_config, now >>

\* a call of a function decorated with @track_function
CallTracked(call, printFails) ==
    /\ now + call.takes <= MaxTime
    /\ IF ~is_tracking_enabled(tracking_config)
       THEN /\ result' = Result("track_function", call, call.outcome, EmptyId)
            /\ printed' = << >>
            /\ UNCHANGED << current_session_id, session_events, uuid_count,
                            emit_log, held_events >>
       ELSE /\ IF current_session_id = EmptyId THEN uuid_count + 3 <= MaxUuid
               ELSE uuid_count + 1 <= MaxUuid /\ Len(session_events) < MaxEvents
            /\ LET w == track_function_fn(Reg, tracking_config, call, now, call.takes,
                                          printFails)
               IN /\ SetReg(w.R)
                  /\ printed' = w.printed
                  /\ result' = Result("track_function", call, w.outcome, EmptyId)
                  /\ held_events' = Follow(held_events, AutoStarted(w.R),
                                           w.R.events, NoEvent)
    /\ now' = now + call.takes
    /\ UNCHANGED << threads, call_stack, tracking_config, pending >>

\* a call of a function decorated with @track_llm
CallLLM(call, printFails) ==
    /\ now + call.takes <= MaxTime
    /\ IF ~is_tracking_enabled(tracking_config)
       THEN /\ result' = Result("track_llm", call, call.outcome, EmptyId)
            /\ printed' = << >>
            /\ UNCHANGED << current_session_id, session_events, uuid_count,
                            emit_log, held_events >>
       ELSE /\ IF current_session_id = EmptyId THEN uuid_count + 3 <= MaxUuid
               ELSE uuid_count + 1 <= MaxUuid /\ Len(session_events) < MaxEvents
            /\ LET w == track_llm_fn(Reg, tracking_config, call, now, call.takes,
                                     printFails)
               IN /\ SetReg(w.R)
                  /\ printed' = w.printed
                  /\ result' = Result("track_llm", call, w.outcome, EmptyId)
                  /\ held_events' = Follow(held_events, AutoStarted(w.R),
                                           w.R.events, NoEvent)
    /\ now' = now + call.takes
    /\ UNCHANGED << threads, call_stack, tracking_config, pending >>

\* ---- wrapped calls that take time and make wrapped calls themselves
\* a running call: tracked is what is_tracking_enabled() gave at entry, t0
\* the clock at entry
Frame(call, tracked, t0) == [call |-> call, tracked |-> tracked, t0 |-> t0]

\* a function decorated with @track_function is called, by the program or
\* by the wrapped function that is running, and starts to run
EnterTracked(call) ==
    /\ Len(call_stack) < MaxDepth
    /\ call_stack' = Append(call_stack,
                            Frame(call, is_tracking_enabled(tracking_config), now))
    /\ SetReg(IF is_tracking_enabled(tracking_config)
              THEN track_function_entry(Reg, tracking_config, call, now)
              ELSE Reg)
    /\ result' = Result("enter_track_function", call, Returned(PyNone), EmptyId)
    /\ printed' = << >>
    /\ UNCHANGED << threads, tracking_config, now, pending, held_events >>

\* the innermost running call completes (returns or raises): the rest of
\* the wrapper runs
ExitTracked(printFails) ==
    /\ call_stack # << >>
    /\ LET frame == call_stack[Len(call_stack)]
       IN /\ call_stack' = SubSeq(call_stack, 1, Len(call_stack) - 1)
          /\ IF ~frame.tracked
             THEN /\ result' = Result("track_function", frame.call,
                                      frame.call.outcome, EmptyId)
                  /\ printed' = << >>
                  /\ UNCHANGED << current_session_id, session_events,
                                  uuid_count, emit_log, held_events >>
             ELSE /\ IF current_session_id = EmptyId
                     THEN uuid_count + 3 <= MaxUuid
                     ELSE uuid_count + 1 <= MaxUuid
                          /\ Len(session_events) < MaxEvents
                  /\ LET w == track_function_fn(Reg, tracking_config, frame.call,
                                                frame.t0, now - frame.t0,
                                                printFails)
                     IN /\ SetReg(w.R)
                        /\ printed' = w.printed
                        /\ result' = Result("track_function", frame.call,
                                            w.outcome, EmptyId)
                        /\ held_events' = Follow(held_events, AutoStarted(w.R),
                                                 w.R.events, NoEvent)
    /\ UNCHANGED << threads, tracking_config, now, pending >>

\* ---- calls made by threads, one statement at a time
Goto(t, pc) == threads' = [threads EXCEPT ![t].pc = pc]

StartRunning == \E u \in Threads : threads[u].op = "start_session"
                                    /\ threads[u].pc # "returned"

\* thread t builds an event and calls emit_event(event)
ThreadEmit(t) ==
    /\ threads[t].pc = "idle"
    /\ uuid_count + 1 <= MaxUuid
    /\ uuid_count' = uuid_count + 1
    /\ threads' = [threads EXCEPT ![t] =
                      [op |-> "emit_event", pc |-> "emit_check",
                       event |-> NewEvent("error", uuid_count + 1, now),
                       overlaps |-> StartRunning]]
    /\ UNCHANGED << call_stack, current_session_id, session_events, tracking_config, now,
                    pending, result, printed, emit_log, held_events >>

\* thread t calls start_session()
ThreadStart(t) ==
    /\ threads[t].pc = "idle"
    /\ threads' = [u \in Threads |->
                      IF u = t
                      THEN [NoThread EXCEPT !.op = "start_session",
                                            !.pc = "start_id"]
                      ELSE [threads[u] EXCEPT !.overlaps = TRUE]]
    /\ UNCHANGED << call_stack, current_session_id, session_events, tracking_config,
                    uuid_count, now, pending, result, printed, emit_log,
                    held_events >>

\* emit_event: if not current_session_id
EmitCheck(t) ==
    /\ threads[t].pc = "emit_check"
    /\ Goto(t, IF current_session_id = EmptyId THEN "start_id" ELSE "emit_stamp")
    /\ UNCHANGED << call_stack, current_session_id, session_events, tracking_config,
                    uuid_count, now, pending, result, printed, emit_log,
                    held_events >>

\* start_session: current_session_id = str(uuid.uuid4())
StartAssignId(t) ==
    /\ threads[t].pc = "start_id"
    /\ uuid_count + 1 <= MaxUuid
    /\ current_session_id' = uuid_count + 1
    /\ uuid_count' = uuid_count + 1
    /\ Goto(t, "start_reset")
    /\ UNCHANGED << call_stack, session_events, tracking_config, now, pending, result,
                    printed, emit_log, held_events >>

\* start_session: session_events = []
StartResetBuffer(t) ==
    /\ threads[t].pc = "start_reset"
    /\ session_events' = << >>
    /\ emit_log' = << >>
    /\ Goto(t, "start_append")
    /\ UNCHANGED << call_stack, current_session_id, tracking_config, uuid_count, now,
                    pending, result, printed, held_events >>

\* start_session: event = SessionEvent(...); session_events.append(event);
\* return
StartAppend(t) ==
    /\ threads[t].pc = "start_append"
    /\ uuid_count + 1 <= MaxUuid
    /\ LET event == SessionEvent(uuid_count + 1, now, current_session_id,
                                 "session_start", NoneStr)
       IN /\ session_events' = Append(session_events, event)
          /\ emit_log' = Append(emit_log, LogEntry(event, current_session_id))
    /\ uuid_count' = uuid_count + 1
    /\ Goto(t, IF threads[t].op = "start_session" THEN "returned"
               ELSE "emit_stamp")
    /\ UNCHANGED << call_stack, current_session_id, tracking_config, now, pending, result,
                    printed, held_events >>

\* emit_event: event.session_id = current_session_id
EmitStamp(t) ==
    /\ threads[t].pc = "emit_stamp"
    /\ threads' = [threads EXCEPT ![t].pc = "emit_append",
                                  ![t].event.session_id = current_session_id]
    /\ UNCHANGED << call_stack, current_session_id, session_events, tracking_config,
                    uuid_count, now, pending, result, printed, emit_log,
                    held_events >>

\* emit_event: session_events.append(event)
EmitAppend(t) ==
    /\ threads[t].pc = "emit_append"
    /\ session_events' = Append(session_events, threads[t].event)
    /\ emit_log' = Append(emit_log, LogEntry(threads[t].event, current_session_id))
    /\ Goto(t, "emit_display")
    /\ UNCHANGED << call_stack, current_session_id, tracking_config, uuid_count, now,
                    pending, result, printed, held_events >>

\* emit_event: display_event(event); return
EmitDisplay(t) ==
    /\ threads[t].pc = "emit_display"
    /\ printed' = display_event(threads[t].event, tracking_config)
    /\ Goto(t, "returned")
    /\ UNCHANGED << call_stack, current_session_id, session_events, tracking_config,
                    uuid_count, now, pending, result, emit_log, held_events >>

\* the drawn call is made
CallDrawn ==
    /\ result.op = "init"
    /\ CallLLM(result.call, FALSE)

\* get_session_summary()
GetSummary ==
    /\ result' = IF SummaryRaises(Reg)
                 THEN Result("get_session_summary", NoCall,
                             Raised(AttributeError), EmptyId)
                 ELSE [Result("get_session_summary", NoCall, Returned(PyNone),
                              EmptyId)
                          EXCEPT !.summary = get_session_summary(Reg)]
    /\ printed' = << >>
    /\ UNCHANGED << threads, call_stack, current_session_id, session_events, tracking_config,
                    uuid_count, now, pending, emit_log, held_events >>

\* get_session_events(): the caller keeps the list it returns
GetEvents ==
    /\ held_events' = get_session_events(Reg)
    /\ result' = Result("get_session_events", NoCall, Returned(PyNone), EmptyId)
    /\ printed' = << >>
    /\ UNCHANGED << threads, call_stack, current_session_id, session_events, tracking_config,
                    uuid_count, now, pending, emit_log >>

\* what a caller does to the list it holds
ListChanges == {"clear", "pop"}

Changed(items, change) ==
    CASE change = "clear" -> << >>
      [] change = "pop" -> SubSeq(items, 1, Len(items) - 1)

\* the caller modifies the list it got from get_session_events; the
\* registry's buffer changes with it when it is the same list
ModifyReturned(change) ==
    /\ held_events.list # "none"
    /\ held_events.items # << >>
    /\ held_events' = [held_events EXCEPT !.items = Changed(@, change)]
    /\ session_events' = IF held_events.list = "buffer"
                         THEN Changed(session_events, change)
                         ELSE session_events
    /\ result' = Result("modify_returned", NoCall, Returned(PyNone), EmptyId)
    /\ printed' = << >>
    /\ UNCHANGED << threads, call_stack, current_session_id, tracking_config, uuid_count, now,
                    pending, emit_log >>

\* display_event(pending)
DisplayEvent(printFails) ==
    /\ pending # NoEvent
    /\ LET lines == display_event(pending, tracking_config)
           raises == lines # << >> /\ printFails
       IN /\ printed' = IF raises THEN << >> ELSE lines
          /\ result' = Result("display_event", NoCall,
                              IF raises THEN Raised(PrintError)
                              ELSE Returned(PyNone), EmptyId)
    /\ UNCHANGED << threads, call_stack, current_session_id, session_events, tracking_config,
                    uuid_count, now, pending, emit_log, held_events >>

\* display_session_summary(summary)
DisplaySummary(summary, printFails) ==
    /\ LET lines == display_session_summary(summary, tracking_config)
           raises == lines # << >> /\ printFails
       IN /\ printed' = IF raises THEN << >> ELSE lines
          /\ result' = [Result("display_session_summary", NoCall,
                               IF raises THEN Raised(PrintError)
                               ELSE Returned(PyNone), EmptyId)
                           EXCEPT !.summary = summary]
    /\ UNCHANGED << threads, call_stack, current_session_id, session_events, tracking_config,
                    uuid_count, now, pending, emit_log, held_events >>

SetTrackingMode(mode) ==
    /\ tracking_config' = set_tracking_mode(tracking_config, mode)
    /\ result' = Result("set_tracking_mode", NoCall, Returned(PyNone), EmptyId)
    /\ printed' = << >>
    /\ UNCHANGED << threads, call_stack, current_session_id, session_events, uuid_count, now,
                    pending, emit_log, held_events >>

SetDisplayLevel(level) ==
    /\ tracking_config' = set_display_level(tracking_config, level)
    /\ result' = Result("set_display_level", NoCall, Returned(PyNone), EmptyId)
    /\ printed' = << >>
    /\ UNCHANGED << threads, call_stack, current_session_id, session_events, uuid_count, now,
                    pending, emit_log, held_events >>

\* The registry driven directly: sessions, caller-built events, the clock.
Next ==
    \/ Tick
    \/ \E user_id \in UserIds : StartSession(user_id)
    \/ EndSession
    \/ \E template \in Templates : Construct(template)
    \/ \E printFails \in PrintOutcomes(tracking_config) : EmitEvent(printFails)

Spec == Init /\ [][Next]_vars

\* The registry driven through the wrappers, with the mode switched.
NextWrappers ==
    \/ StartSession(NoneStr)
    \/ EndSession
    \/ \E call \in FunctionCalls, printFails \in PrintOutcomes(tracking_config) :
          CallTracked(call, printFails)
    \/ \E call \in LLMCalls, printFails \in PrintOutcomes(tracking_config) :
          CallLLM(call, printFails)
    \/ \E mode \in Modes : SetTrackingMode(mode)

SpecWrappers == Init /\ [][NextWrappers]_vars

\* Sessions filled by caller-built events and by wrapped calls, and
\* summarised.
NextSummary ==
    \/ StartSession(NoneStr)
    \/ EndSession
    \/ \E template \in Templates : Construct(template)
    \/ EmitEvent(FALSE)
    \/ \E call \in SummaryFunctionCalls : CallTracked(call, FALSE)
    \/ \E call \in SummaryLLMCalls : CallLLM(call, FALSE)
    \/ GetSummary

SpecSummary == Init /\ [][NextSummary]_vars

\* Sessions started and ended while the clock runs, and summarised.
NextDuration ==
    \/ Tick
    \/ StartSession(NoneStr)
    \/ EndSession
    \/ Construct("error")
    \/ EmitEvent(FALSE)
    \/ GetSummary

SpecDuration == Init /\ [][NextDuration]_vars

\* Sessions whose events a caller reads, keeps and modifies.
NextReturned ==
    \/ StartSession(NoneStr)
    \/ EndSession
    \/ Construct("error")
    \/ EmitEvent(FALSE)
    \/ GetEvents
    \/ \E change \in ListChanges : ModifyReturned(change)

SpecReturned == Init /\ [][NextReturned]_vars

\* One call of a wrapped LLM function on texts, and the sessions around it.
NextLLM ==
    \/ CallDrawn
    \/ StartSession(NoneStr)
    \/ EndSession

SpecLLM == InitLLM /\ [][NextLLM]_vars

\* The renderer called on events and summaries, in every mode and at every
\* level.
NextDisplay ==
    \/ \E template \in DisplayTemplates : Construct(template)
    \/ \E printFails \in PrintOutcomes(tracking_config) : DisplayEvent(printFails)
    \/ \E summary \in Summaries, printFails \in PrintOutcomes(tracking_config) :
          DisplaySummary(summary, printFails)
    \/ \E mode \in Modes : SetTrackingMode(mode)
    \/ \E level \in DisplayLevels : SetDisplayLevel(level)

SpecDisplay == Init /\ [][NextDisplay]_vars

\* emit_event and start_session called from several threads at once.
NextThreads ==
    \E t \in Threads :
        \/ ThreadEmit(t)
        \/ ThreadStart(t)
        \/ EmitCheck(t)
        \/ StartAssignId(t)
        \/ StartResetBuffer(t)
        \/ StartAppend(t)
        \/ EmitStamp(t)
        \/ EmitAppend(t)
        \/ EmitDisplay(t)

SpecThreads == Init /\ [][NextThreads]_vars

\* Sessions of events with and without a cost, summarised.
NextCost ==
    \/ StartSession(NoneStr)
    \/ \E template \in CostTemplates : Construct(template)
    \/ EmitEvent(FALSE)
    \/ GetSummary

SpecCost == Init /\ [][NextCost]_vars

\* Wrapped LLM calls that raise, in every mode.
NextLLMRaise ==
    \/ StartSession(NoneStr)
    \/ EndSession
    \/ \E call \in RaisingLLMCalls, printFails \in PrintOutcomes(tracking_config) :
          CallLLM(call, printFails)
    \/ \E mode \in Modes : SetTrackingMode(mode)

SpecLLMRaise == Init /\ [][NextLLMRaise]_vars

\* emit_event called directly, in every mode.
NextEmitModes ==
    \/ StartSession(NoneStr)
    \/ EndSession
    \/ Construct("error")
    \/ \E printFails \in PrintOutcomes(tracking_config) : EmitEvent(printFails)
    \/ \E mode \in Modes : SetTrackingMode(mode)

SpecEmitModes == Init /\ [][NextEmitModes]_vars

\* Wrapped calls that take time, nest and may never complete, with the
\* mode switched while they run.
NextNested ==
    \/ Tick
    \/ \E call \in SummaryFunctionCalls : EnterTracked(call)
    \/ ExitTracked(FALSE)
    \/ SetTrackingMode("disabled")

SpecNested == Init /\ [][NextNested]_vars

\* Every operation of the registry, the renderer and the configuration.
NextFrame ==
    \/ StartSession(NoneStr)
    \/ EndSession
    \/ Construct("error")
    \/ EmitEvent(FALSE)
    \/ GetEvents
    \/ GetSummary
    \/ DisplayEvent(FALSE)
    \/ \E summary \in {s \in Summaries : s.has_session_end} :
          DisplaySummary(summary, FALSE)
    \/ \E mode \in {"file", "disabled"} : SetTrackingMode(mode)
    \/ SetDisplayLevel("verbose")

SpecFrame == Init /\ [][NextFrame]_vars

\* Wrapped calls that return each kind of value, or raise.
NextReturnValue ==
    \/ StartSession(NoneStr)
    \/ \E call \in ReturnCalls : CallTracked(call, FALSE)
    \/ \E mode \in {"file", "disabled"} : SetTrackingMode(mode)

SpecReturnValue == Init /\ [][NextReturnValue]_vars

\* ====================================================== properties
IsSessionStart(e) == e.cls = "SessionEvent" /\ e.event_type = "session_start"
IsSessionEnd(e) == e.cls = "SessionEvent" /\ e.event_type = "session_end"
IsPrefixOf(s, t) == Len(s) <= Len(t) /\ \A i \in 1..Len(s) : t[i] = s[i]
\* the entries of the buffer after a step that were built during the step
FreshEvents(events, uuids) ==
    {i \in 1..Len(events) : events[i].event_id > uuids}

\* ---- C1
\* C1: the buffer holds exactly the events appended since it was last
\* reset, in the order they were appended, and each carries the session id
\* that was current_session_id at the moment it was appended.
C1_EmissionOrder ==
    /\ Len(session_events) = Len(emit_log)
    /\ \A i \in 1..Len(session_events) :
          /\ session_events[i].event_id = emit_log[i].id
          /\ session_events[i].session_id = emit_log[i].sid

\* an emitted event sits behind the SessionStart of an implicitly started
\* session and is followed by the SessionEnd
C1_Witness ==
    /\ Len(session_events) = 3
    /\ session_events[2].cls = "ErrorEvent"
    /\ session_events[2].session_id = session_events[1].session_id
    /\ IsSessionEnd(session_events[3])
    /\ current_session_id = EmptyId

\* ---- C2
\* C2: right after start_session returned id s, the active session is s,
\* s is not empty, the call did not raise, and the buffer is exactly one
\* SessionStart event stamped with s.
C2_StartResets ==
    result.op = "start_session" =>
        /\ result.outcome.kind = "return"
        /\ result.sid # EmptyId
        /\ current_session_id = result.sid
        /\ Len(session_events) = 1
        /\ IsSessionStart(session_events[1])
        /\ session_events[1].session_id = result.sid

\* start_session was called while a session holding an emitted event was
\* active
C2_Witness ==
    /\ result.op = "start_session"
    /\ result.before # EmptyId
    /\ pending.session_id = result.before
    /\ Len(session_events) = 1

\* ---- C3
\* C3: a step of emit_event taken while no session is active leaves a new,
\* non-empty session id active and the buffer equal to
\* [SessionStart without user id, the emitted event], both stamped with it.
C3_ImplicitStart ==
    [][ (result'.op = "emit_event" /\ emit_log' # emit_log
            /\ current_session_id = EmptyId)
        => /\ current_session_id' # EmptyId
           /\ current_session_id' > uuid_count
           /\ Len(session_events') = 2
           /\ IsSessionStart(session_events'[1])
           /\ session_events'[1].user_id = NoneStr
           /\ session_events'[1].session_id = current_session_id'
           /\ session_events'[2]
                 = [pending EXCEPT !.session_id = current_session_id'] ]_vars

\* emit_event ran with no active session, after an end_session call that
\* followed the construction of the event
C3_Witness ==
    /\ result.op = "emit_event"
    /\ result.before = EmptyId
    /\ Len(session_events) = 2
    /\ session_events[2].event_id < session_events[1].event_id - 2

\* ---- C4
\* C4: a step of end_session taken while session s is active appends one
\* SessionEnd stamped with s behind the unchanged earlier entries, empties
\* the marker and returns s; and no step other than a (explicit or
\* implicit) start_session removes or changes a buffered entry.
C4_EndSession ==
    [][ /\ (result'.op = "end_session" /\ emit_log' # emit_log
               /\ current_session_id # EmptyId)
           => /\ Len(session_events') = Len(session_events) + 1
              /\ IsPrefixOf(session_events, session_events')
              /\ IsSessionEnd(session_events'[Len(session_events')])
              /\ session_events'[Len(session_events')].session_id
                    = current_session_id
              /\ current_session_id' = EmptyId
              /\ result'.sid = current_session_id
              /\ result'.outcome.kind = "return"
        /\ (current_session_id' = current_session_id
               \/ current_session_id' = EmptyId)
           => IsPrefixOf(session_events, session_events') ]_vars

\* a session with an emitted event was ended
C4_Witness ==
    /\ result.op = "end_session"
    /\ result.before # EmptyId
    /\ result.sid = result.before
    /\ Len(session_events) = 3
    /\ IsSessionEnd(session_events[3])

\* ---- C5
\* the FunctionCall events a wrapper step appended
NewFunctionEvents(events, uuids) ==
    {i \in FreshEvents(events, uuids) : events[i].cls = "FunctionCallEvent"}

\* C5 (as claimed): when the wrapped function raises with tracking enabled,
\* the caller gets that same error and the step appended exactly one
\* FunctionCall event, with success = false and a non-empty error_message.
C5_RaiseTracked ==
    [][ (result'.op = "track_function" /\ tracking_config.mode # "disabled"
            /\ result'.call.outcome.kind = "raise")
        => /\ result'.outcome = result'.call.outcome
           /\ Cardinality(NewFunctionEvents(session_events', uuid_count)) = 1
           /\ \A i \in NewFunctionEvents(session_events', uuid_count) :
                 /\ ~session_events'[i].success
                 /\ session_events'[i].error_message # NoneStr
                 /\ session_events'[i].error_message # "" ]_vars

\* ---- C6
\* C6 (as claimed): with tracking enabled every completed call of a wrapped
\* function appends exactly one FunctionCall event, whose success flag is
\* true exactly when the wrapped function returned.
C6_ExactlyOneEvent ==
    [][ (result'.op = "track_function" /\ tracking_config.mode # "disabled")
        => /\ Cardinality(NewFunctionEvents(session_events', uuid_count)) = 1
           /\ \A i \in NewFunctionEvents(session_events', uuid_count) :
                 session_events'[i].success
                    <=> (result'.call.outcome.kind = "return") ]_vars

\* ---- C7
\* C7 (as claimed): whatever goes wrong while the event is built, emitted or
\* rendered, the caller of a wrapped function sees exactly what the wrapped
\* function did.
C7_TrackingErrorsSwallowed ==
    result.op \in {"track_function", "track_llm"}
        => result.outcome = result.call.outcome

\* ---- C8
\* C8 (as claimed): emit_event returns normally, with the event appended,
\* also when the renderer raises.
C8_EmitNeverFails ==
    result.op = "emit_event"
        => /\ result.outcome.kind = "return"
           /\ session_events # << >>
           /\ session_events[Len(session_events)] = pending

\* ---- C9
\* C9: in disabled mode a call of a wrapped function (either wrapper) leaves
\* the buffer, the active-session marker and the uuid counter as they were,
\* prints nothing, and gives the caller exactly what the wrapped function
\* did.
C9_DisabledPassThrough ==
    [][ (result'.op \in {"track_function", "track_llm"}
            /\ tracking_config.mode = "disabled")
        => /\ session_events' = session_events
           /\ current_session_id' = current_session_id
           /\ uuid_count' = uuid_count
           /\ emit_log' = emit_log
           /\ printed' = << >>
           /\ result'.outcome = result'.call.outcome ]_vars

\* a wrapped function raised in disabled mode while a session was active
C9_Witness ==
    /\ tracking_config.mode = "disabled"
    /\ result.op \in {"track_function", "track_llm"}
    /\ result.outcome.kind = "raise"
    /\ result.before # EmptyId
    /\ Len(session_events) = 1

\* ---- C10
CountWhere(events, P(_)) == Cardinality({i \in 1..Len(events) : P(events[i])})
IsRealSessionEnd(e) == IsSessionEnd(e) /\ e.session_id # EmptyId
IsEmptySessionEnd(e) == IsSessionEnd(e) /\ e.session_id = EmptyId

\* C10 (as claimed): a non-empty buffer begins with a SessionStart, holds
\* exactly one SessionStart, and, once end_session has been called on it
\* (the marker is empty again), holds exactly one SessionEnd.
C10_OneStartOneEnd ==
    session_events # << >>
        => /\ IsSessionStart(session_events[1])
           /\ CountWhere(session_events, IsSessionStart) = 1
           /\ (current_session_id = EmptyId
                  => CountWhere(session_events, IsSessionEnd) = 1)

\* the buffer belongs to a session: start_session ran, explicitly or inside
\* emit_event, since the process began
SessionWasStarted ==
    current_session_id # EmptyId
    \/ \E i \in 1..Len(session_events) : session_events[i].session_id # EmptyId

\* C10 (amended): once a session was started the buffer begins with its
\* SessionStart and holds no other; it holds exactly one SessionEnd stamped
\* with the session's id once that session was ended and none before;
\* every other SessionEnd comes from an end_session call made with no
\* active session and is stamped with the empty id, and before any session
\* was started the buffer holds nothing but such SessionEnd events.
C10_Amended ==
    /\ SessionWasStarted
          => /\ IsSessionStart(session_events[1])
             /\ CountWhere(session_events, IsSessionStart) = 1
             /\ CountWhere(session_events, IsRealSessionEnd)
                   = (IF current_session_id = EmptyId THEN 1 ELSE 0)
             /\ \A i \in 1..Len(session_events) :
                   IsSessionEnd(session_events[i])
                      => \A j \in (i + 1)..Len(session_events) :
                            IsEmptySessionEnd(session_events[j])
    /\ ~SessionWasStarted
          => \A i \in 1..Len(session_events) :
                IsEmptySessionEnd(session_events[i])

\* end_session was called twice in a row on a started session
C10_Witness ==
    /\ Len(session_events) = 3
    /\ IsSessionStart(session_events[1])
    /\ IsRealSessionEnd(session_events[2])
    /\ IsEmptySessionEnd(session_events[3])


\* ---- C11
\* C11 (as claimed): the timestamps of the buffered events never decrease
\* along the buffer.
C11_TimestampsMonotone ==
    \A i \in 1..Len(session_events) : \A j \in i..Len(session_events) :
        session_events[i].timestamp <= session_events[j].timestamp

\* ---- C12
\* C12 (as claimed): no two entries of the buffer carry the same event_id.
C12_EventIdsUnique ==
    \A i \in 1..Len(session_events) : \A j \in 1..Len(session_events) :
        i # j => session_events[i].event_id # session_events[j].event_id


\* ---- C13
IndicesWithTag(events, tag) ==
    {i \in 1..Len(events) : events[i].event_type = tag}

\* C13: the counts of a returned summary are the numbers of buffered events
\* carrying each discriminant tag; failed FunctionCall events are counted
\* under function_calls_count like successful ones and never under
\* errors_count.
C13_SummaryCounts ==
    (result.op = "get_session_summary" /\ result.outcome.kind = "return"
        /\ session_events # << >>)
    => /\ result.summary.function_calls_count
             = Cardinality(IndicesWithTag(session_events, "function_call"))
       /\ result.summary.llm_calls_count
             = Cardinality(IndicesWithTag(session_events, "llm_call"))
       /\ result.summary.api_calls_count
             = Cardinality(IndicesWithTag(session_events, "api_call"))
       /\ result.summary.errors_count
             = Cardinality(IndicesWithTag(session_events, "error"))
       /\ result.summary.function_calls_count
             >= Cardinality({i \in 1..Len(session_events) :
                    session_events[i].cls = "FunctionCallEvent"
                    /\ ~session_events[i].success})

\* the summary of a session with one successful and one failed FunctionCall
C13_Witness ==
    /\ result.op = "get_session_summary"
    /\ Len(session_events) = 3
    /\ session_events[2].cls = "FunctionCallEvent" /\ session_events[2].success
    /\ session_events[3].cls = "FunctionCallEvent" /\ ~session_events[3].success
    /\ result.summary.function_calls_count = 2
    /\ result.summary.errors_count = 0

\* ---- C14
MinOf(S) == CHOOSE i \in S : \A j \in S : i <= j

\* C14: total_time_seconds of a returned summary is present exactly when
\* the buffer holds a SessionStart and a SessionEnd, and then it is the
\* timestamp of the first SessionEnd minus that of the first SessionStart;
\* it is absent while a session is active.
C14_SummaryDuration ==
    (result.op = "get_session_summary" /\ result.outcome.kind = "return"
        /\ session_events # << >>)
    => LET starts == IndicesWithTag(session_events, "session_start")
           ends == IndicesWithTag(session_events, "session_end")
       IN /\ result.summary.has_total_time <=> (starts # {} /\ ends # {})
          /\ result.summary.has_total_time
                => result.summary.total_time_seconds
                      = session_events[MinOf(ends)].timestamp
                        - session_events[MinOf(starts)].timestamp
          /\ current_session_id # EmptyId => ~result.summary.has_total_time

\* the summary of a session that was ended twice, the second time later
C14_Witness ==
    /\ result.op = "get_session_summary"
    /\ Len(session_events) = 3
    /\ IsSessionStart(session_events[1])
    /\ IsSessionEnd(session_events[2])
    /\ IsSessionEnd(session_events[3])
    /\ session_events[3].timestamp > session_events[2].timestamp
    /\ result.summary.has_total_time
    /\ result.summary.total_time_seconds = 0

\* ---- C15
\* C15: get_session_summary never raises, and on an empty buffer it returns
\* the empty dict.
C15_SummaryNeverFails ==
    result.op = "get_session_summary"
    => /\ result.outcome.kind = "return"
       /\ session_events = << >> => result.summary = EmptySummary
       /\ session_events # << >> => ~result.summary.empty

\* the summary was asked for while the buffer was empty
C15_Witness ==
    /\ result.op = "get_session_summary"
    /\ session_events = << >>
    /\ result.summary.empty


\* ---- C16
\* C16: a step of end_session taken while no session is active returns the
\* empty id without raising, appends one SessionEnd stamped with the empty
\* id behind the unchanged buffer, and leaves the marker empty.
C16_EndWithoutSession ==
    [][ (result'.op = "end_session" /\ now' = now
            /\ current_session_id = EmptyId)
        => /\ result'.outcome.kind = "return"
           /\ result'.sid = EmptyId
           /\ Len(session_events') = Len(session_events) + 1
           /\ IsPrefixOf(session_events, session_events')
           /\ IsSessionEnd(session_events'[Len(session_events')])
           /\ session_events'[Len(session_events')].session_id = EmptyId
           /\ current_session_id' = EmptyId ]_vars

\* end_session ran with no active session on the buffer of an ended session
C16_Witness ==
    /\ result.op = "end_session"
    /\ result.before = EmptyId
    /\ Len(session_events) = 3
    /\ session_events[2].session_id # EmptyId
    /\ IsSessionEnd(session_events[2])
    /\ IsSessionEnd(session_events[3])
    /\ session_events[3].session_id = EmptyId


\* ---- C17
EventIds(events) == [i \in DOMAIN events |-> events[i].event_id]

\* C17: a list returned by get_session_events holds the same event objects
\* in the same order after any later emit_event, start_session or
\* end_session, and a modification of the returned list leaves the buffer
\* as it was.
C17_DefensiveCopy ==
    [][ /\ (held_events.list # "none"
              /\ result'.op \in {"emit_event", "start_session", "end_session"})
           => EventIds(held_events'.items) = EventIds(held_events.items)
        /\ result'.op = "modify_returned"
           => session_events' = session_events ]_vars

\* a returned list of two events was kept while a third event was emitted,
\* and then lost its last element while the buffer kept all three
C17_Witness ==
    /\ result.op = "modify_returned"
    /\ Len(held_events.items) = 1
    /\ Len(session_events) = 3
    /\ session_events[3].cls = "ErrorEvent"


\* ---- C18
\* the number of whitespace-separated words: the places where a word starts
WordStarts(cs) ==
    Cardinality({i \in 1..Len(cs) :
                    /\ cs[i] \notin {" ", "\t", "\n"}
                    /\ (i = 1 \/ cs[i - 1] \in {" ", "\t", "\n"})})

\* the texts among the arguments of a call
TextArgs(call) ==
    {call.args[i] : i \in {j \in DOMAIN call.args : call.args[j].type = "text"}}
    \cup {call.kwargs[i][2] :
             i \in {j \in DOMAIN call.kwargs : call.kwargs[j][2].type = "text"}}

\* a wrapped LLM call has just returned a response with text and its event
\* is the last of the buffer
LLMCallReturned ==
    /\ result.op = "track_llm"
    /\ result.outcome.kind = "return"
    /\ result.call.outcome.value.type = "response"
    /\ result.call.outcome.value.hasText
    /\ session_events # << >>
    /\ session_events[Len(session_events)].cls = "LLMCallEvent"

TokensAndCostOf(call, event) ==
    /\ \A p \in TextArgs(call) :
          event.tokens_used
             = WordStarts(p.chars) + WordStarts(call.outcome.value.chars)
    /\ event.estimated_cost.num * 1000 * RateDen
          = event.tokens_used * RateNum * event.estimated_cost.den

\* C18 (as stated): for a wrapped LLM call given a model handle and a prompt
\* text that returns a response with text, the emitted event has tokens_used
\* = words of the prompt + words of the response text and estimated_cost =
\* (tokens_used / 1000) * rate.
C18_TokensAndCost ==
    LLMCallReturned
       => TokensAndCostOf(result.call, session_events[Len(session_events)])

\* the prompt is where the wrapper reads it: the argument named prompt or
\* the third positional argument
PromptIsRead(call) ==
    \/ \E i \in DOMAIN call.kwargs : call.kwargs[i][1] = "prompt"
    \/ Len(call.args) > 2 /\ call.args[3].type = "text"

\* C18 (amended): the same, for calls that pass the prompt as the argument
\* named prompt or as the third positional argument (after a receiver and
\* the model handle).
C18_Amended ==
    (LLMCallReturned /\ PromptIsRead(result.call))
       => TokensAndCostOf(result.call, session_events[Len(session_events)])

\* a method call with a prompt of two words got a response of one word
C18_Witness ==
    /\ LLMCallReturned
    /\ Len(result.call.args) = 3
    /\ result.call.args[3].chars = << "a", " ", "a" >>
    /\ result.call.outcome.value.chars = << "a", "a" >>
    /\ session_events[Len(session_events)].tokens_used = 3
    /\ session_events[Len(session_events)].estimated_cost.num = 3


\* ---- C19
\* C19: in file, webhook and disabled mode display_event and
\* display_session_summary print nothing, at every display level.
C19_SilentUnlessConsole ==
    (result.op \in {"display_event", "display_session_summary"}
        /\ tracking_config.mode \in {"file", "webhook", "disabled"})
       => printed = << >>

\* an Error event was handed to display_event in file mode at verbose level
C19_Witness ==
    /\ result.op = "display_event"
    /\ tracking_config.mode = "file"
    /\ tracking_config.display_level = "verbose"
    /\ pending.cls = "ErrorEvent"
    /\ printed = << >>

\* ---- C20
\* C20: in cli mode at quiet level display_event prints nothing for a
\* FunctionCall, LLMCall or APICall event, succeeded or failed, and prints
\* for every SessionStart and SessionEnd event; for an Error event it
\* prints at every level (printing: when print() itself does not fail).
C20_QuietVerbosity ==
    (result.op = "display_event" /\ tracking_config.mode = "cli")
       => /\ (tracking_config.display_level = "quiet"
                /\ pending.cls \in {"FunctionCallEvent", "LLMCallEvent",
                                    "APICallEvent"})
             => printed = << >>
          /\ (tracking_config.display_level = "quiet"
                /\ (IsSessionStart(pending) \/ IsSessionEnd(pending))
                /\ result.outcome.kind = "return")
             => printed # << >>
          /\ (pending.cls = "ErrorEvent" /\ result.outcome.kind = "return")
             => printed # << >>

\* a failed FunctionCall event was handed to display_event in cli mode at
\* quiet level
C20_Witness ==
    /\ result.op = "display_event"
    /\ tracking_config.mode = "cli"
    /\ tracking_config.display_level = "quiet"
    /\ pending.cls = "FunctionCallEvent"
    /\ ~pending.success
    /\ printed = << >>


\* ---- C21
InBuffer(event) ==
    \E i \in 1..Len(session_events) : session_events[i].event_id = event.event_id

\* C21: every event whose emit_event call returned, with no start_session
\* call running or begun since the emit_event call began, is in the buffer,
\* also when several threads emit at once and race on the implicit start.
C21_NoLostEmit ==
    \A t \in Threads :
        (threads[t].op = "emit_event" /\ threads[t].pc = "returned"
            /\ ~threads[t].overlaps)
           => InBuffer(threads[t].event)


\* ---- C22
\* the session identifiers carried by the events of a buffer
SessionIdsOf(events) == {events[i].session_id : i \in 1..Len(events)}

\* C22: a step of start_session, called directly or by emit_event when no
\* session is active, leaves a non-empty session id that is none of the
\* identifiers generated before (1..uuid_count), and the events of the new
\* buffer carry that id and no id an event carried before.
C22_FreshSessionId ==
    [][ (now' = now
           /\ \/ result'.op = "start_session"
              \/ (result'.op = "emit_event" /\ emit_log' # emit_log
                    /\ current_session_id = EmptyId))
        => /\ current_session_id' # EmptyId
           /\ current_session_id' \notin 1..uuid_count
           /\ SessionIdsOf(session_events') = {current_session_id'}
           /\ SessionIdsOf(session_events') \cap SessionIdsOf(session_events)
                 = {} ]_vars

\* a third session was started while the second one was active
C22_Witness ==
    /\ result.op = "start_session"
    /\ result.before # EmptyId
    /\ result.sid > result.before
    /\ result.before > 1
    /\ SessionIdsOf(session_events) = {result.sid}


\* ---- C23
\* the costs of the events tagged llm_call, added up in units of
\* 1 / (1000 * RateDen) dollars; an event without a cost adds nothing
RECURSIVE LLMCostUnits(_)
LLMCostUnits(events) ==
    IF events = << >> THEN 0
    ELSE (IF Head(events).event_type = "llm_call"
             /\ Head(events).estimated_cost.den = 1000 * RateDen
          THEN Head(events).estimated_cost.num ELSE 0)
         + LLMCostUnits(Tail(events))

\* C23: total_estimated_cost of a returned summary is the sum of
\* estimated_cost over the buffered events tagged llm_call; an LLMCall event
\* without a cost and events with other tags add nothing.
C23_SummaryCost ==
    (result.op = "get_session_summary" /\ result.outcome.kind = "return")
       => result.summary.total_estimated_cost.num * 1000 * RateDen
             = LLMCostUnits(session_events)
                  * result.summary.total_estimated_cost.den

\* the summary of a buffer holding two LLMCall events with a cost
C23_Witness ==
    /\ result.op = "get_session_summary"
    /\ result.outcome.kind = "return"
    /\ Len(session_events) = 3
    /\ session_events[2].event_type = "llm_call"
    /\ session_events[3].event_type = "llm_call"
    /\ session_events[2].estimated_cost.num = 2
    /\ session_events[3].estimated_cost.num = 3
    /\ result.summary.total_estimated_cost.num = 5


\* ---- C24
\* the LLMCall events a wrapper step appended
NewLLMEvents(events, uuids) ==
    {i \in FreshEvents(events, uuids) : events[i].cls = "LLMCallEvent"}

\* C24 (as claimed): when the wrapped LLM function raises with tracking
\* enabled, the caller gets that same error and the step appended exactly
\* one LLMCall event, with success = false, a non-empty error_message,
\* response length 0, an empty response text and tokens_used equal to the
\* number of words of the prompt.
C24_LLMRaiseTracked ==
    [][ (result'.op = "track_llm" /\ tracking_config.mode # "disabled"
            /\ result'.call.outcome.kind = "raise")
        => /\ result'.outcome = result'.call.outcome
           /\ Cardinality(NewLLMEvents(session_events', uuid_count)) = 1
           /\ \A i \in NewLLMEvents(session_events', uuid_count) :
                 /\ ~session_events'[i].success
                 /\ session_events'[i].error_message # NoneStr
                 /\ session_events'[i].error_message # ""
                 /\ session_events'[i].response_length = 0
                 /\ session_events'[i].llm_response = NoText
                 /\ \A p \in TextArgs(result'.call) :
                       session_events'[i].tokens_used = WordStarts(p.chars) ]_vars


\* ---- C25
Entries(parameters) == {parameters[i] : i \in 1..Len(parameters)}

\* C25 (as claimed): the parameters of the FunctionCall event a wrapper step
\* appended hold arg_i with the string form of every positional argument at
\* index i >= 1 and every named argument with its string form, and the
\* first positional argument is recorded too unless it is a receiver-like
\* handle.
C25_ParametersRecorded ==
    [][ (result'.op = "track_function" /\ tracking_config.mode # "disabled")
        => \A n \in NewFunctionEvents(session_events', uuid_count) :
              LET recorded == Entries(session_events'[n].parameters)
                  args == result'.call.args
                  kwargs == result'.call.kwargs
              IN /\ \A i \in 2..Len(args) :
                       << "arg_" \o ToString(i - 1), Repr(args[i]) >> \in recorded
                 /\ \A j \in 1..Len(kwargs) :
                       << kwargs[j][1], Repr(kwargs[j][2]) >> \in recorded
                 /\ (Len(args) >= 1 /\ args[1].type # "object")
                       => \E entry \in recorded : entry[2] = Repr(args[1]) ]_vars


\* ---- C26
\* display_event has just printed a failed FunctionCall, LLMCall or APICall
\* event (cli mode, level not quiet, print() did not fail)
FailedCallRendered ==
    /\ result.op = "display_event"
    /\ result.outcome.kind = "return"
    /\ tracking_config.mode = "cli"
    /\ tracking_config.display_level # "quiet"
    /\ pending.cls \in {"FunctionCallEvent", "LLMCallEvent", "APICallEvent"}
    /\ ~pending.success

\* C26 (as stated): the line rendered for a failed FunctionCall, LLMCall or
\* APICall event always has the error suffix, also when error_message is
\* empty or absent.
C26_ErrorSuffixAlways ==
    FailedCallRendered => Len(printed) = 1 /\ printed[1].err # NoneStr

\* C26 (amended): the line rendered for a failed FunctionCall, LLMCall or
\* APICall event has the error suffix, holding error_message, exactly when
\* error_message is present and not empty.
C26_Amended ==
    FailedCallRendered
       => /\ Len(printed) = 1
          /\ IF pending.error_message \in {NoneStr, ""}
             THEN printed[1].err = NoneStr
             ELSE printed[1].err = pending.error_message

\* a failed FunctionCall event with a message was rendered at normal level
C26_Witness ==
    /\ FailedCallRendered
    /\ tracking_config.display_level = "normal"
    /\ pending.cls = "FunctionCallEvent"
    /\ pending.error_message = "bad date"
    /\ printed[1].err = "bad date"


\* ---- C27
\* C27: while a session is active the buffer begins with a SessionStart
\* stamped with the active id, every buffered event carries the active id
\* and no buffered event is a SessionEnd (callers emit no session events).
C27_ActiveSessionBuffer ==
    current_session_id # EmptyId
       => /\ session_events # << >>
          /\ IsSessionStart(session_events[1])
          /\ \A i \in 1..Len(session_events) :
                /\ session_events[i].session_id = current_session_id
                /\ ~IsSessionEnd(session_events[i])

\* an event built during an earlier session was emitted into the session
\* that an emit_event call started, and emitted a second time
C27_Witness ==
    /\ current_session_id # EmptyId
    /\ result.op = "emit_event"
    /\ Len(session_events) = 3
    /\ session_events[2].event_id = session_events[3].event_id
    /\ session_events[2].event_id < session_events[1].event_id


\* ---- C28
\* C28: the session_id of a returned summary (of a buffer that is not
\* empty: the summary of an empty buffer has no session_id) is the value the
\* active-session marker had when get_session_summary was called, whatever
\* the buffered events carry.
C28_SummarySessionId ==
    (result.op = "get_session_summary" /\ result.outcome.kind = "return"
        /\ ~result.summary.empty)
       => /\ result.summary.session_id = result.before
          /\ result.summary.session_id = current_session_id

\* a session was started and ended and then summarised: the summary has an
\* empty session_id and every buffered event carries the id of the session
C28_Witness ==
    /\ result.op = "get_session_summary"
    /\ ~result.summary.empty
    /\ result.summary.session_id = EmptyId
    /\ Len(session_events) = 3
    /\ IsSessionStart(session_events[1])
    /\ IsSessionEnd(session_events[3])
    /\ \A i \in 1..3 : session_events[i].session_id = session_events[1].session_id
    /\ session_events[1].session_id # EmptyId


\* ---- C29
\* the buffered events the renderer dispatches to the display function of
\* a class
IndicesOfClass(events, cls) == {i \in 1..Len(events) : events[i].cls = cls}

\* C29 (as claimed): a returned summary counts under errors_count exactly
\* the buffered events the renderer treats as Error events, under
\* api_calls_count exactly those it treats as APICall events, and none of
\* either under function_calls_count, whatever tag they were built with.
C29_SummaryAgreesWithRenderer ==
    (result.op = "get_session_summary" /\ result.outcome.kind = "return"
        /\ ~result.summary.empty)
       => /\ result.summary.errors_count
                = Cardinality(IndicesOfClass(session_events, "ErrorEvent"))
          /\ result.summary.api_calls_count
                = Cardinality(IndicesOfClass(session_events, "APICallEvent"))
          /\ result.summary.function_calls_count
                = Cardinality({i \in 1..Len(session_events) :
                      /\ session_events[i].event_type = "function_call"
                      /\ session_events[i].cls \notin {"ErrorEvent", "APICallEvent"}})


\* ---- C30
\* C30: a step of emit_event, in whatever mode, leaves the emitted event as
\* the last entry of the buffer and a session active: behind the
\* SessionStart of a new session when none was active, behind the buffer as
\* it was otherwise; lines are printed in cli mode only.
C30_EmitBuffersInEveryMode ==
    [][ result'.op = "emit_event"
        => /\ session_events' # << >>
           /\ session_events'[Len(session_events')].event_id = pending.event_id
           /\ current_session_id' # EmptyId
           /\ IF current_session_id = EmptyId
              THEN Len(session_events') = 2 /\ IsSessionStart(session_events'[1])
              ELSE /\ Len(session_events') = Len(session_events) + 1
                   /\ current_session_id' = current_session_id
           /\ (printed' # << >> => tracking_config.mode = "cli") ]_vars

\* emit_event was called in disabled mode with no session active
C30_Witness ==
    /\ result.op = "emit_event"
    /\ tracking_config.mode = "disabled"
    /\ result.before = EmptyId
    /\ current_session_id # EmptyId
    /\ Len(session_events) = 2
    /\ session_events[2].event_id = pending.event_id


\* ---- C31
\* C31: the buffer changes in no step in which a wrapped call starts or goes
\* on running; the step in which the innermost running call completes
\* appends the event of that call, and no other, as the last entry, behind
\* the events of the calls that completed while it ran.
C31_EventAfterCompletion ==
    [][ /\ Len(call_stack') >= Len(call_stack)
           => session_events' = session_events
        /\ Len(call_stack') < Len(call_stack)
           => LET frame == call_stack[Len(call_stack)]
                  new == NewFunctionEvents(session_events', uuid_count)
              IN /\ new = IF frame.tracked THEN {Len(session_events')} ELSE {}
                 /\ \A i \in new :
                       /\ session_events'[i].name = frame.call.name
                       /\ session_events'[i].time_ms = (now - frame.t0) * 1000
                 /\ current_session_id # EmptyId
                       => IsPrefixOf(session_events, session_events') ]_vars

\* delete_event was called at time 0 and called count_events at time 1:
\* the event of count_events sits before the event of delete_event
C31_Witness ==
    /\ call_stack = << >>
    /\ result.op = "track_function"
    /\ Len(session_events) = 3
    /\ session_events[2].name = "count_events"
    /\ session_events[2].timestamp = 1
    /\ session_events[2].time_ms = 0
    /\ session_events[3].name = "delete_event"
    /\ session_events[3].time_ms = 1000


\* ---- C32
ConfigFields == DOMAIN TrackingConfig

\* C32: get_session_events, get_session_summary, display_event and
\* display_session_summary leave the buffer and the active-session marker
\* as they were; set_tracking_mode changes the mode and set_display_level
\* the display level, no other field of the configuration, and neither
\* touches the buffer or the marker; start_session, end_session and
\* emit_event leave every field of the configuration as it was.
C32_Frame ==
    [][ /\ result'.op \in {"get_session_events", "get_session_summary",
                           "display_event", "display_session_summary",
                           "set_tracking_mode", "set_display_level"}
           => /\ session_events' = session_events
              /\ current_session_id' = current_session_id
        /\ result'.op = "set_tracking_mode"
           => \A f \in ConfigFields \ {"mode"} :
                 tracking_config'[f] = tracking_config[f]
        /\ result'.op = "set_display_level"
           => \A f \in ConfigFields \ {"display_level"} :
                 tracking_config'[f] = tracking_config[f]
        /\ result'.op \in {"start_session", "end_session", "emit_event"}
           => tracking_config' = tracking_config ]_vars

\* the mode was set with a session active, a filled buffer and a display
\* level that is not the default one
C32_Witness ==
    /\ result.op = "set_tracking_mode"
    /\ tracking_config.mode = "file"
    /\ tracking_config.display_level = "verbose"
    /\ current_session_id # EmptyId
    /\ Len(session_events) = 2
    /\ held_events.list # "none"


\* ---- C33
\* C33: the FunctionCall event of a wrapped call holds in return_value the
\* repr of the returned value when the call returned a value other than
\* None, 0, False, the empty string and the empty list, and holds nothing
\* when the call returned one of these or raised.
C33_ReturnValue ==
    [][ result'.op = "track_function"
        => \A i \in NewFunctionEvents(session_events', uuid_count) :
              LET outcome == result'.call.outcome
                  recorded == session_events'[i].return_value
              IN IF outcome.kind = "return"
                    /\ outcome.value \notin {PyNone, PyInt(0), PyBool(FALSE),
                                             PyStr(""), PyList(0)}
                 THEN recorded = Repr(outcome.value)
                 ELSE recorded = NoneStr ]_vars

\* a call that returned 'created' was tracked, and then a call that
\* returned the empty list
C33_Witness ==
    /\ result.op = "track_function"
    /\ result.call.outcome = Returned(PyList(0))
    /\ Len(session_events) = 3
    /\ session_events[2].cls = "FunctionCallEvent"
    /\ session_events[2].return_value = "'created'"
    /\ session_events[3].cls = "FunctionCallEvent"
    /\ session_events[3].return_value = NoneStr
    /\ session_events[3].success

====
